---- MODULE Spec2Model ----
(***************************************************************************)
(* Model of the video genuinity analysis pipeline of gen_score:            *)
(* VideoService.analyze_videos (app/services/video_service.py) with its    *)
(* locator get_video_files, its sampler select_random_videos, the encoder  *)
(* video_to_base64, the remote adapter APIService.analyze_video            *)
(* (app/services/api_service.py) and the report generator                  *)
(* PDFService.generate_report (app/services/pdf_service.py).               *)
(*                                                                         *)
(* Python values are modelled as follows.  None is the empty tuple and an  *)
(* optional value v is <<v>>.  A path str(folder / name) is the pair       *)
(* <<interview_id, name>>.  A float score is an integer; the mean          *)
(* sum / len is the exact fraction <<sum, len>> and round(x, 4) is an      *)
(* integer number of ten-thousandths.                                      *)
(***************************************************************************)
EXTENDS Integers, Sequences, FiniteSets, TLC

VARIABLES
    interview_id,       \* argument of analyze_videos
    num_videos,         \* argument of analyze_videos: None or <<n>>
    folder,             \* the directory VIDEO_BASE_PATH / interview_id on disk
    pc,                 \* position of the run inside analyze_videos
    video_files,        \* local of analyze_videos (line 69)
    selected_videos,    \* local of analyze_videos (line 78)
    idx,                \* 1-based position of the for loop (line 84)
    analysis_results,   \* local of analyze_videos (line 81)
    detailed_analyses,  \* local of analyze_videos (line 82)
    avg_score,          \* local of analyze_videos (line 116): None or <<<<sum, len>>>>
    result,             \* the returned dict: None or <<dict>>
    exception,          \* the exception that left analyze_videos: None or <<name>>
    report,             \* outcome of generate_report: None or <<outcome>>
    calls,              \* log of the calls made to the collaborators
    iterations,         \* log of the loop iterations: which branch each one took
    requests,           \* the calls of analyze_videos served side by side, by request
    clock,              \* the wall clock, in seconds (index into ClockValues)
    artifacts           \* log of the report files written to PDF_OUTPUT_PATH

vars == <<interview_id, num_videos, folder, pc, video_files, selected_videos, idx,
          analysis_results, detailed_analyses, avg_score, result, exception,
          report, calls, iterations, requests, clock, artifacts>>

\* What exists outside one call of analyze_videos.
shared == <<requests, clock, artifacts>>

None == <<>>

Some(v) == <<v>>

(***************************************************************************)
(* Bounds of the model.                                                    *)
(***************************************************************************)
\* Largest number of directory entries in the interview folder.
MaxFiles == 3

\* Largest sample count a request carries.
MaxNum == 3

\* settings.NUM_RANDOM_VIDEOS
NUM_RANDOM_VIDEOS == 2

\* The interview identifiers a request carries: plain ones, and ones that hold
\* a parent-directory segment or are an absolute path.
PlainIds == {"INT1", "INT2"}

TraversalIds == {"../INT2", "/srv/INT3"}

InterviewIds == PlainIds \cup TraversalIds

\* The genuinity scores the remote service answers with.
Scores == {5, 7, 9}

\* The values datetime.now().strftime("%Y%m%d_%H%M%S") takes.
Timestamps == {"20260101_120000"}

(***************************************************************************)
(* The storage: directory entries of the interview folder.                 *)
(***************************************************************************)
Entry(name, suffix, is_file) == [name |-> name, suffix |-> suffix, is_file |-> is_file]

Entries ==
    { Entry("a.mp4", ".mp4", TRUE),
      Entry("b.MOV", ".MOV", TRUE),
      Entry("c.avi", ".avi", TRUE),
      Entry("notes.txt", ".txt", TRUE),
      Entry("d.mkv", ".mkv", FALSE) }

\* Sequences of length n of pairwise distinct elements of S.
RECURSIVE Arrangements(_, _)
Arrangements(S, n) ==
    IF n = 0 THEN {<<>>}
    ELSE UNION { { Append(s, x) : x \in S \ {s[i] : i \in 1..Len(s)} } :
                 s \in Arrangements(S, n - 1) }

\* What iterdir() can yield: the entries of a directory, in an arbitrary order.
Listings == UNION { Arrangements(Entries, n) : n \in 0..MaxFiles }

\* The directory the joined path points to: missing, or present with its
\* entries; listable says whether os.listdir is permitted on it.
Folders ==
    {[exists |-> FALSE, listable |-> FALSE, entries |-> <<>>]} \cup
    {[exists |-> TRUE, listable |-> TRUE, entries |-> l] : l \in Listings} \cup
    {[exists |-> TRUE, listable |-> FALSE, entries |-> l] :
        l \in Arrangements(Entries, 1)}

\* str.lower() on the suffixes that occur.
Lower(s) ==
    CASE s = ".MOV" -> ".mov"
      [] s = ".MP4" -> ".mp4"
      [] s = ".WMV" -> ".wmv"
      [] s = ".Mkv" -> ".mkv"
      [] OTHER -> s

\* str(video_folder / file.name)
PathOf(id, entry) == <<id, entry.name>>

\* os.path.basename
Basename(path) == path[2]

video_extensions == {".mp4", ".avi", ".mov", ".mkv", ".flv", ".wmv"}

\* Mutant: the suffix is compared as it is written.
IsVideoFile_CaseSensitive(file) == file.is_file /\ file.suffix \in video_extensions

\* Line 34: file.is_file() and file.suffix.lower() in video_extensions
IsVideoFile(file) == file.is_file /\ Lower(file.suffix) \in video_extensions

\* Lines 32-35: the loop of get_video_files over iterdir().
RECURSIVE Matching(_, _)
Matching(id, entries) ==
    IF entries = <<>> THEN <<>>
    ELSE LET file == Head(entries)
             rest == Matching(id, Tail(entries))
         IN  IF IsVideoFile(file)
             THEN <<PathOf(id, file)>> \o rest
             ELSE rest

\* The segments of settings.VIDEO_BASE_PATH, an absolute path.
VIDEO_BASE_PATH == <<"path", "to", "project", "uploads", "videos", "internal">>

\* Path(interview_id): whether it is absolute, and its segments.
IdPath(id) ==
    CASE id = "../INT2" -> [absolute |-> FALSE, parts |-> <<"..", "INT2">>]
      [] id = "/srv/INT3" -> [absolute |-> TRUE, parts |-> <<"srv", "INT3">>]
      [] OTHER -> [absolute |-> FALSE, parts |-> <<id>>]

\* Line 23: Path(settings.VIDEO_BASE_PATH) / interview_id.  pathlib's "/" drops
\* the left operand when the right one is absolute and keeps ".." segments.
video_folder(id) ==
    IF IdPath(id).absolute THEN IdPath(id).parts ELSE VIDEO_BASE_PATH \o IdPath(id).parts


(***************************************************************************)
(* Outcomes of a call: a returned value or a raised exception.             *)
(***************************************************************************)
Return(v) == [raised |-> FALSE, exc |-> "", value |-> Some(v)]

Raise(e) == [raised |-> TRUE, exc |-> e, value |-> None]

(***************************************************************************)
(* The locator.                                                            *)
(***************************************************************************)
\* Mutant: a folder that may not be listed is treated like a missing one.
get_video_files_SwallowDenied(id, dir) ==
    IF ~dir.exists \/ ~dir.listable
    THEN Return(<<>>)
    ELSE Return(Matching(id, dir.entries))

\* VideoService.get_video_files: an empty list for a missing folder (line 25),
\* PermissionError out of iterdir() for a folder that may not be listed (line
\* 33, no try around it), otherwise the matching entries.
get_video_files(id, dir) ==
    IF ~dir.exists
    THEN Return(<<>>)
    ELSE IF ~dir.listable
    THEN Raise("PermissionError")
    ELSE Return(Matching(id, dir.entries))

(***************************************************************************)
(* The sampler.                                                            *)
(***************************************************************************)
\* Mutant: the elements are drawn with replacement, as random.choices does.
random_sample_WithReplacement(population, k) ==
    IF k < 0 \/ k > Len(population)
    THEN {Raise("ValueError")}
    ELSE { Return([i \in 1..k |-> population[p[i]]]) :
           p \in [1..k -> 1..Len(population)] }

\* random.sample(population, k): ValueError unless 0 <= k <= len(population),
\* otherwise any k elements at pairwise distinct positions, in any order.
random_sample(population, k) ==
    IF k < 0 \/ k > Len(population)
    THEN {Raise("ValueError")}
    ELSE { Return([i \in 1..k |-> population[p[i]]]) :
           p \in Arrangements(1..Len(population), k) }

\* Mutant: the early return is taken only when fewer videos exist than requested.
select_random_videos_Strict(files, num) ==
    LET n == IF num = None THEN NUM_RANDOM_VIDEOS ELSE num[1]
    IN  IF Len(files) < n
        THEN {Return(files)}
        ELSE random_sample(files, n)

\* Mutant: without a sample count every candidate is selected.
select_random_videos_DefaultAll(files, num) ==
    LET n == IF num = None THEN Len(files) ELSE num[1]
    IN  IF Len(files) <= n
        THEN {Return(files)}
        ELSE random_sample(files, n)

\* VideoService.select_random_videos: the set of its possible outcomes.
select_random_videos(files, num) ==
    LET n == IF num = None THEN NUM_RANDOM_VIDEOS ELSE num[1]
    IN  IF Len(files) <= n
        THEN {Return(files)}
        ELSE random_sample(files, n)

(***************************************************************************)
(* The encoder.                                                            *)
(***************************************************************************)
\* What open(video_path, 'rb').read() can do.
ReadOutcomes == {"ok", "OSError"}

\* VideoService.video_to_base64
video_to_base64(video_path, read) ==
    IF read = "ok" THEN Return(<<"base64", video_path>>) ELSE Raise(read)

(***************************************************************************)
(* The remote analysis service and its adapter.                            *)
(***************************************************************************)
\* The "data" object of a response whose genuinity_score is the optional gs.
\* errors_summary, when present, is given by its set of keys (the categories);
\* detailed_errors, when present, is the list of the error dicts.
Data(gs) ==
    [genuinity_score |-> gs, total_duration |-> Some(60), total_penalty |-> Some(1),
     errors_summary |-> None, detailed_errors |-> None]

\* What requests.post can do: time out, answer with an error status, or answer
\* with a JSON body whose "data" is missing or empty (None) or present.
Responses ==
    { [transport |-> "Timeout", data |-> None],
      [transport |-> "HTTPError", data |-> None],
      [transport |-> "ok", data |-> None],
      [transport |-> "ok", data |-> Some(Data(None))] } \cup
    { [transport |-> "ok", data |-> Some(Data(Some(s)))] : s \in Scores }

\* settings.EXTERNAL_API_TIMEOUT, in seconds
EXTERNAL_API_TIMEOUT == 300

\* Mutant: the request is sent without a timeout.
requests_post_NoTimeout(video_base64) ==
    [json |-> [video_blob |-> video_base64], timeout |-> None]

\* Lines 17-25: the arguments of requests.post.
requests_post(video_base64) ==
    [json |-> [video_blob |-> video_base64], timeout |-> Some(EXTERNAL_API_TIMEOUT)]

\* float(data.get(key, 0.0))
GetFloat(field) == IF field = None THEN 0 ELSE field[1]

\* data.get(key, default)
GetOr(field, default) == IF field = None THEN default ELSE field[1]

\* The fields DetailedError requires (video_schema.py lines 6-10).
DetailedErrorFields == {"error_type", "from_time", "to_time", "confidence"}

\* DetailedError(**error) raises ValidationError for a dict that lacks a field.
ValidDetailedErrors(errors) ==
    \A i \in 1..Len(errors) : DetailedErrorFields \subseteq DOMAIN errors[i]

\* Lines 45-57: the VideoAnalysisResponse built from the data object.
VideoAnalysisResponse(video_name, data) ==
    [video_name |-> video_name,
     total_duration |-> GetFloat(data.total_duration),
     genuinity_score |-> GetFloat(data.genuinity_score),
     total_penalty |-> GetFloat(data.total_penalty),
     errors_summary |-> GetOr(data.errors_summary, {}),
     detailed_errors |-> GetOr(data.detailed_errors, <<>>)]

\* Mutant: a body without "data" is parsed as an empty object.
analyze_video_NoDataCheck(video_base64, video_name, response) ==
    IF response.transport # "ok"
    THEN Raise("RequestException")
    ELSE LET data == IF response.data = None THEN Data(None) ELSE response.data[1]
         IN  IF ~ValidDetailedErrors(GetOr(data.detailed_errors, <<>>))
             THEN Raise("ValidationError")
             ELSE Return(VideoAnalysisResponse(video_name, data))

\* Mutant: a data object without genuinity_score is a parse fault.
analyze_video_RequireScore(video_base64, video_name, response) ==
    IF response.transport # "ok"
    THEN Raise("RequestException")
    ELSE IF response.data = None
    THEN Raise("ValueError")
    ELSE LET data == response.data[1]
         IN  IF data.genuinity_score = None
             THEN Raise("KeyError")
             ELSE IF ~ValidDetailedErrors(GetOr(data.detailed_errors, <<>>))
             THEN Raise("ValidationError")
             ELSE Return(VideoAnalysisResponse(video_name, data))

\* APIService.analyze_video: RequestException for a transport fault (lines
\* 21-27, 59-61), ValueError for a missing or empty "data" (lines 35-39),
\* ValidationError out of DetailedError(**error) (lines 51-53), otherwise the
\* VideoAnalysisResponse; nothing else of the data object is checked.
analyze_video(video_base64, video_name, response) ==
    IF response.transport # "ok"
    THEN Raise("RequestException")
    ELSE IF response.data = None
    THEN Raise("ValueError")
    ELSE LET data == response.data[1]
         IN  IF ~ValidDetailedErrors(GetOr(data.detailed_errors, <<>>))
             THEN Raise("ValidationError")
             ELSE Return(VideoAnalysisResponse(video_name, data))

(***************************************************************************)
(* The report generator.                                                   *)
(***************************************************************************)
ReportOutcomes == {"ok", "Exception"}

\* PDFService.generate_report
generate_report(id, outcome, timestamp) ==
    IF outcome = "ok" THEN Return(<<id, timestamp>>) ELSE Raise(outcome)

(***************************************************************************)
(* The pieces of analyze_videos.                                           *)
(***************************************************************************)
\* Mutant: the summary takes its score from the penalty.
Summary_PenaltyAsScore(video_name, analysis) ==
    [video_name |-> video_name,
     genuinity_score |-> analysis.total_penalty,
     total_duration |-> analysis.total_duration,
     total_penalty |-> analysis.total_penalty]

\* The summary dict appended at lines 96-101.
Summary(video_name, analysis) ==
    [video_name |-> video_name,
     genuinity_score |-> analysis.genuinity_score,
     total_duration |-> analysis.total_duration,
     total_penalty |-> analysis.total_penalty]

\* Mutant: the new entry is put in front of the list.
ListAppend_Prepend(list, item) == <<item>> \o list

\* list.append
ListAppend(list, item) == Append(list, item)

\* Mutant: the except branch records the failed item with placeholder values.
AfterItemFault_Placeholder(list) ==
    Append(list, [video_name |-> "", genuinity_score |-> 0,
                  total_duration |-> 0, total_penalty |-> 0])

\* Mutant: the except branch throws away what was collected so far.
AfterItemFault_Clear(list) == <<>>

\* The except branch of the loop: log and continue; the lists are not touched.
AfterItemFault(list) == list

\* Mutant: the loop stays on the same video and submits it again.
NextItem_Stay(i) == i

\* The for loop moves to the next sampled video after every iteration.
NextItem(i) == i + 1

\* sum(r["genuinity_score"] for r in analysis_results)
RECURSIVE SumScores(_)
SumScores(results) ==
    IF results = <<>> THEN 0
    ELSE Head(results).genuinity_score + SumScores(Tail(results))

\* Mutant: the sum is divided by the configured sample size.
Average_ByConfiguredCount(results) == <<SumScores(results), NUM_RANDOM_VIDEOS>>

\* avg_score = sum(...) / len(analysis_results), as the fraction <<sum, len>>
Average(results) == <<SumScores(results), Len(results)>>

\* Mutant: the mean is rounded to 2 decimal places.
Round4_TwoPlaces(q) == 100 * ((2 * 100 * q[1] + q[2]) \div (2 * q[2]))

\* round(avg_score, 4), in ten-thousandths (the scores are integers and at
\* most MaxFiles + 1 of them are averaged, so no quotient lies on a tie).
Round4(q) == (2 * 10000 * q[1] + q[2]) \div (2 * q[2])

NoVideosResult(id) ==
    [status |-> "error",
     message |-> <<"No videos found for interview_id: ", id>>]

\* Mutant: the all-failed case reuses the message of the empty case.
AllFailedResult_SameMessage ==
    [status |-> "error",
     message |-> <<"No videos found for interview_id: ", interview_id>>]

AllFailedResult ==
    [status |-> "error",
     message |-> <<"Failed to analyze any videos">>]

SuccessResult(id, results, avg, pdf_path) ==
    [interview_id |-> id,
     videos_analyzed |-> Len(results),
     average_genuinity_score |-> Round4(avg),
     individual_scores |-> results,
     status |-> "success",
     message |-> <<"Successfully analyzed ", Len(results), " videos">>,
     pdf_report_path |-> pdf_path]

\* Mutant: a report fault turns the run into a failure.
FinalResult_FailOnReportFault(id, results, avg, generated) ==
    IF generated.raised
    THEN [status |-> "error", message |-> <<"Failed to generate PDF report">>]
    ELSE SuccessResult(id, results, avg, generated.value)

\* Lines 119-139: a report fault leaves pdf_path None; the dict is returned
\* either way.
FinalResult(id, results, avg, generated) ==
    SuccessResult(id, results, avg,
                  IF generated.raised THEN None ELSE generated.value)

\* Mutant: the empty check is lost and the run goes on to the sampler.
NoCandidates_Never(files) == FALSE

\* "if not video_files" (line 71)
NoCandidates(files) == files = <<>>

\* "if not analysis_results" (line 109)
NothingAnalyzed(results) == results = <<>>

\* No other request is being served.
NoRequests == <<>>

NoCalls ==
    [get_video_files |-> <<>>, iterdir |-> <<>>, select_random_videos |-> <<>>,
     requests_post |-> <<>>,
     video_to_base64 |-> <<>>, analyze_video |-> <<>>, generate_report |-> <<>>]

Called(log, fn, args) == [log EXCEPT ![fn] = Append(@, args)]

(***************************************************************************)
(* The run of analyze_videos.                                              *)
(***************************************************************************)
NumVideos == {None} \cup {Some(n) : n \in -1..MaxNum}

\* The requests and folders the runs start from: every folder for the plain
\* identifiers, the folders of at most one entry for the other identifiers.
Init ==
    /\ interview_id \in InterviewIds
    /\ num_videos \in NumVideos
    /\ folder \in Folders
    /\ interview_id \in TraversalIds => Len(folder.entries) <= 1
    /\ pc = "Init"
    /\ video_files = <<>>
    /\ selected_videos = <<>>
    /\ idx = 0
    /\ analysis_results = <<>>
    /\ detailed_analyses = <<>>
    /\ avg_score = None
    /\ result = None
    /\ exception = None
    /\ report = None
    /\ calls = NoCalls
    /\ iterations = <<>>
    /\ requests = NoRequests
    /\ clock = 1
    /\ artifacts = <<>>

\* The caller invokes analyze_videos(interview_id, num_videos).
Call ==
    /\ pc = "Init"
    /\ pc' = "Locating"
    /\ UNCHANGED <<interview_id, num_videos, folder, video_files, selected_videos, idx,
                   analysis_results, detailed_analyses, avg_score, result, exception,
                   report, calls, iterations>>
    /\ UNCHANGED shared

\* Lines 69-75: locate the candidates; an exception of the locator leaves
\* analyze_videos; the error dict is returned when there are no candidates.
Locate ==
    /\ pc = "Locating"
    /\ LET located == get_video_files(interview_id, folder)
       IN  /\ calls' = IF folder.exists
                       THEN Called(Called(calls, "get_video_files", <<interview_id>>),
                                   "iterdir", video_folder(interview_id))
                       ELSE Called(calls, "get_video_files", <<interview_id>>)
           /\ IF located.raised
              THEN /\ exception' = Some(located.exc)
                   /\ pc' = "Raised"
                   /\ UNCHANGED <<video_files, result>>
              ELSE /\ video_files' = located.value[1]
                   /\ exception' = exception
                   /\ IF NoCandidates(located.value[1])
                      THEN /\ result' = Some(NoVideosResult(interview_id))
                           /\ pc' = "Done"
                      ELSE /\ result' = result
                           /\ pc' = "Sampling"
    /\ UNCHANGED <<interview_id, num_videos, folder, selected_videos, idx,
                   analysis_results, detailed_analyses, avg_score,
                   report, iterations>>
    /\ UNCHANGED shared

\* Line 78: sample; an exception of the sampler leaves analyze_videos.
Sample ==
    /\ pc = "Sampling"
    /\ calls' = Called(calls, "select_random_videos", <<video_files, num_videos>>)
    /\ \E r \in select_random_videos(video_files, num_videos) :
          IF r.raised
          THEN /\ exception' = Some(r.exc)
               /\ pc' = "Raised"
               /\ UNCHANGED <<selected_videos, idx>>
          ELSE /\ selected_videos' = r.value[1]
               /\ idx' = 1
               /\ pc' = "Analyzing"
               /\ UNCHANGED exception
    /\ UNCHANGED <<interview_id, num_videos, folder, video_files,
                   analysis_results, detailed_analyses, avg_score, result, report,
                   iterations>>
    /\ UNCHANGED shared

\* One iteration of the loop, lines 84-107, for the sampled video at idx: the
\* encoder reads the file (read) and, if that worked, the remote service
\* answers (response).
Iteration(read, response) ==
    LET video_path == selected_videos[idx]
        video_name == Basename(video_path)
        encoded == video_to_base64(video_path, read)
        analysed == analyze_video(encoded.value[1], video_name, response)
    IN  IF encoded.raised
        THEN /\ calls' = Called(calls, "video_to_base64", <<video_path>>)
             /\ analysis_results' = AfterItemFault(analysis_results)
             /\ detailed_analyses' = AfterItemFault(detailed_analyses)
             /\ iterations' = Append(iterations,
                    [video |-> video_path, response |-> None,
                     fault |-> Some(encoded.exc), analysis |-> None])
        ELSE /\ calls' = Called(Called(Called(calls, "video_to_base64", <<video_path>>),
                                       "analyze_video", <<encoded.value[1], video_name>>),
                                "requests_post", requests_post(encoded.value[1]))
             /\ IF analysed.raised
                THEN /\ analysis_results' = AfterItemFault(analysis_results)
                     /\ detailed_analyses' = AfterItemFault(detailed_analyses)
                     /\ iterations' = Append(iterations,
                            [video |-> video_path, response |-> Some(response),
                             fault |-> Some(analysed.exc), analysis |-> None])
                ELSE /\ analysis_results' =
                            ListAppend(analysis_results,
                                       Summary(video_name, analysed.value[1]))
                     /\ detailed_analyses' =
                            ListAppend(detailed_analyses, analysed.value[1])
                     /\ iterations' = Append(iterations,
                            [video |-> video_path, response |-> Some(response),
                             fault |-> None, analysis |-> analysed.value])

AnalyzeItemWith(responses) ==
    /\ pc = "Analyzing"
    /\ idx <= Len(selected_videos)
    /\ \E read \in ReadOutcomes, response \in responses : Iteration(read, response)
    /\ idx' = NextItem(idx)
    /\ UNCHANGED <<interview_id, num_videos, folder, pc, video_files, selected_videos,
                   avg_score, result, exception, report>>
    /\ UNCHANGED shared

\* The loop iteration with the answers of Responses.
AnalyzeItem == AnalyzeItemWith(Responses)

\* Lines 109-113: the loop is over; return the error dict when nothing succeeded.
LoopExit ==
    /\ pc = "Analyzing"
    /\ idx > Len(selected_videos)
    /\ IF NothingAnalyzed(analysis_results)
       THEN /\ result' = Some(AllFailedResult)
            /\ pc' = "Done"
       ELSE /\ result' = result
            /\ pc' = "Aggregating"
    /\ UNCHANGED <<interview_id, num_videos, folder, video_files, selected_videos, idx,
                   analysis_results, detailed_analyses, avg_score, exception,
                   report, calls, iterations>>
    /\ UNCHANGED shared

\* Line 116: the mean.
Aggregate ==
    /\ pc = "Aggregating"
    /\ avg_score' = Some(Average(analysis_results))
    /\ pc' = "Reporting"
    /\ UNCHANGED <<interview_id, num_videos, folder, video_files, selected_videos, idx,
                   analysis_results, detailed_analyses, result, exception,
                   report, calls, iterations>>
    /\ UNCHANGED shared

\* Lines 118-139: generate the report, tolerate its failure, return the result.
Report ==
    /\ pc = "Reporting"
    /\ calls' = Called(calls, "generate_report",
                       <<interview_id, avg_score[1], analysis_results, detailed_analyses>>)
    /\ \E outcome \in ReportOutcomes, timestamp \in Timestamps :
          LET generated == generate_report(interview_id, outcome, timestamp)
          IN  /\ report' = Some(generated)
              /\ result' = Some(FinalResult(interview_id, analysis_results,
                                            avg_score[1], generated))
    /\ pc' = "Done"
    /\ UNCHANGED <<interview_id, num_videos, folder, video_files, selected_videos, idx,
                   analysis_results, detailed_analyses, avg_score, exception, iterations>>
    /\ UNCHANGED shared

Next ==
    \/ Call
    \/ Locate
    \/ Sample
    \/ AnalyzeItem
    \/ LoopExit
    \/ Aggregate
    \/ Report

Spec == Init /\ [][Next]_vars

(***************************************************************************)
(* What the properties speak about.                                        *)
(***************************************************************************)
\* analyze_videos has returned its dict.
Returned == pc = "Done"

\* Number of sampled videos.
m == Len(selected_videos)

IterationOk(it) == it.fault = None

\* The loop iterations that ended in the except branch / that did not.
FailedIterations == SelectSeq(iterations, LAMBDA it : ~IterationOk(it))

OkIterations == SelectSeq(iterations, IterationOk)

\* Number of sampled videos that faulted.
k == Len(FailedIterations)

\* Sum of the genuinity scores the adapter returned for the successful videos.
RECURSIVE SumOfAnalyses(_)
SumOfAnalyses(its) ==
    IF its = <<>> THEN 0
    ELSE Head(its).analysis[1].genuinity_score + SumOfAnalyses(Tail(its))

\* r (in ten-thousandths) is sum / count rounded to 4 decimal places.
IsRoundedMean(r, sum, count) ==
    /\ count > 0
    /\ 2 * (r * count - 10000 * sum) <= count
    /\ 2 * (10000 * sum - r * count) <= count

\* The summaries of the successful iterations, in iteration order.
ExpectedSummaries ==
    [i \in 1..Len(OkIterations) |->
        [video_name |-> Basename(OkIterations[i].video),
         genuinity_score |-> OkIterations[i].analysis[1].genuinity_score,
         total_duration |-> OkIterations[i].analysis[1].total_duration,
         total_penalty |-> OkIterations[i].analysis[1].total_penalty]]

\* The folder holds no file with an allow-listed extension, or does not exist.
ZeroMatchingFiles ==
    \/ ~folder.exists
    \/ /\ folder.listable
       /\ \A i \in 1..Len(folder.entries) :
             ~(folder.entries[i].is_file
               /\ Lower(folder.entries[i].suffix) \in video_extensions)

NoVideosMessage == <<"No videos found for interview_id: ", interview_id>>

(***************************************************************************)
(* C1: when m >= 2 videos are sampled and exactly k of them fault, with    *)
(* 0 < k < m, the returned dict has status "success", videos_analyzed is   *)
(* m - k and average_genuinity_score is the mean of the scores of exactly  *)
(* the m - k successful videos.                                            *)
(***************************************************************************)
C1_PartialFailure ==
    (Returned /\ m >= 2 /\ Len(iterations) = m /\ 0 < k /\ k < m) =>
        /\ result[1].status = "success"
        /\ result[1].videos_analyzed = m - k
        /\ Len(OkIterations) = m - k
        /\ IsRoundedMean(result[1].average_genuinity_score,
                         SumOfAnalyses(OkIterations), m - k)

C1_Witness ==
    /\ Returned
    /\ m = 3
    /\ k = 1
    /\ ~IterationOk(iterations[2])
    /\ result[1].videos_analyzed = 2
    /\ result[1].average_genuinity_score = 60000

(***************************************************************************)
(* C2: when the locator finds no matching file (the folder is missing or   *)
(* holds no allow-listed file) the run returns status "error" with the "No *)
(* videos found" message, and neither the sampler, the encoder, the remote *)
(* service nor the report generator is ever called.                        *)
(***************************************************************************)
C2_NoCandidates ==
    ZeroMatchingFiles =>
        /\ calls.select_random_videos = <<>>
        /\ calls.video_to_base64 = <<>>
        /\ calls.analyze_video = <<>>
        /\ calls.generate_report = <<>>
        /\ pc \in {"Init", "Locating", "Done"}
        /\ Returned => /\ result[1].status = "error"
                       /\ result[1].message = NoVideosMessage

C2_Witness ==
    /\ Returned
    /\ folder.exists
    /\ Len(folder.entries) = 2
    /\ ZeroMatchingFiles
    /\ result[1].message = NoVideosMessage

(***************************************************************************)
(* C3: when every one of the m >= 1 sampled videos faults, the run returns *)
(* status "error" with a message different from the one of the empty case, *)
(* and the report generator is not called.                                 *)
(***************************************************************************)
C3_AllFailed ==
    (m >= 1 /\ Len(iterations) = m /\ k = m /\ pc # "Analyzing") =>
        /\ Returned
        /\ result[1].status = "error"
        /\ result[1].message # NoVideosMessage
        /\ calls.generate_report = <<>>

C3_Witness ==
    /\ Returned
    /\ m = 2
    /\ k = 2
    /\ iterations[1].fault = Some("OSError")
    /\ iterations[2].fault = Some("RequestException")
    /\ result[1].status = "error"

(***************************************************************************)
(* C4: when at least one sampled video was analysed and the report         *)
(* generator raises, the run still returns status "success" with a null    *)
(* pdf_report_path, and videos_analyzed, average_genuinity_score and       *)
(* individual_scores are what the analysed videos determine, as in a run   *)
(* whose report was generated.                                             *)
(***************************************************************************)
AnalysisFieldsAsDetermined ==
    /\ result[1].videos_analyzed = Len(OkIterations)
    /\ result[1].individual_scores = ExpectedSummaries
    /\ IsRoundedMean(result[1].average_genuinity_score,
                     SumOfAnalyses(OkIterations), Len(OkIterations))

C4_ReportFault ==
    (Returned /\ report # None) =>
        /\ result[1].status = "success"
        /\ AnalysisFieldsAsDetermined
        /\ report[1].raised => result[1].pdf_report_path = None
        /\ ~report[1].raised => result[1].pdf_report_path = report[1].value

C4_Witness ==
    /\ Returned
    /\ report # None
    /\ report[1].raised
    /\ k = 1
    /\ result[1].status = "success"
    /\ result[1].pdf_report_path = None
    /\ result[1].videos_analyzed = 1

(***************************************************************************)
(* C5: a run ends with status "error" if and only if the candidate set was *)
(* empty or no sampled video was analysed successfully; every other run    *)
(* ends with status "success".                                             *)
(***************************************************************************)
\* The run is over: analyze_videos returned, or an exception left it.
Terminated == pc \in {"Done", "Raised"}

EndsWith(status) == Returned /\ result[1].status = status

C5_ErrorIffNotFoundOrAllFailed ==
    Terminated =>
        /\ EndsWith("error") <=> (video_files = <<>> \/ Len(OkIterations) = 0)
        /\ ~EndsWith("error") => EndsWith("success")

\* The same statement for the runs in which analyze_videos returns.
C5_ReturnedRuns ==
    Returned =>
        /\ EndsWith("error") <=> (video_files = <<>> \/ Len(OkIterations) = 0)
        /\ ~EndsWith("error") => EndsWith("success")

(***************************************************************************)
(* C6: a fault on one sampled video never stops the loop: the loop goes on *)
(* to the next sampled video and leaves the summaries collected so far     *)
(* unchanged, and it is left only when every sampled video was processed.  *)
(***************************************************************************)
\* This step is a loop iteration that ends in the except branch.
FaultStep ==
    /\ pc = "Analyzing"
    /\ Len(iterations') = Len(iterations) + 1
    /\ ~IterationOk(iterations'[Len(iterations')])

\* This step leaves the loop.
LeaveLoopStep == pc = "Analyzing" /\ pc' # "Analyzing"

C6_Step ==
    /\ FaultStep =>
          /\ pc' = "Analyzing"
          /\ idx' = idx + 1
          /\ analysis_results' = analysis_results
          /\ detailed_analyses' = detailed_analyses
    /\ LeaveLoopStep =>
          /\ Len(iterations) = m
          /\ \A i \in 1..m : iterations[i].video = selected_videos[i]

C6_FaultDoesNotStopLoop == [][C6_Step]_vars

C6_Witness ==
    /\ Len(iterations) = 3
    /\ IterationOk(iterations[1])
    /\ ~IterationOk(iterations[2])
    /\ IterationOk(iterations[3])
    /\ Len(analysis_results) = 2
    /\ analysis_results[1].video_name = Basename(selected_videos[1])
    /\ analysis_results[2].video_name = Basename(selected_videos[3])

(***************************************************************************)
(* C7: in every successful result individual_scores lists exactly the      *)
(* sampled videos that succeeded, in the relative order of the sample.     *)
(***************************************************************************)
\* Position of the video called name in the sample.
PositionInSample(name) ==
    CHOOSE i \in 1..m : Basename(selected_videos[i]) = name

C7_SampleOrder ==
    EndsWith("success") =>
        LET scores == result[1].individual_scores
            succeeded == { i \in 1..m : IterationOk(iterations[i]) }
        IN  /\ Len(iterations) = m
            /\ Len(scores) = Cardinality(succeeded)
            /\ { scores[a].video_name : a \in 1..Len(scores) } =
               { Basename(selected_videos[i]) : i \in succeeded }
            /\ \A a, b \in 1..Len(scores) :
                  a < b <=> PositionInSample(scores[a].video_name)
                              < PositionInSample(scores[b].video_name)

C7_Witness ==
    /\ EndsWith("success")
    /\ m = 3
    /\ k = 1
    /\ ~IterationOk(iterations[2])
    /\ Len(result[1].individual_scores) = 2
    /\ result[1].individual_scores[1].video_name = Basename(selected_videos[1])
    /\ result[1].individual_scores[2].video_name = Basename(selected_videos[3])

(***************************************************************************)
(* C8: a run passes through its phases only in the order Init, Locating,   *)
(* Sampling, Analyzing(1..m), Aggregating, Reporting, Done and never goes  *)
(* back; Aggregating and Reporting begin only after every sampled item was *)
(* processed; Done is the only terminal state, reached with either status. *)
(***************************************************************************)
Phases ==
    <<"Init", "Locating", "Sampling", "Analyzing", "Aggregating", "Reporting", "Done">>

PhaseRank(phase) == CHOOSE i \in 1..Len(Phases) : Phases[i] = phase

IsPhase(phase) == \E i \in 1..Len(Phases) : Phases[i] = phase

\* A step of the run never leads back: the phase stays or advances, and inside
\* Analyzing the position advances.
ForwardStep ==
    /\ IsPhase(pc')
    /\ PhaseRank(pc) <= PhaseRank(pc')
    /\ (pc = "Analyzing" /\ pc' = "Analyzing") => idx' = idx + 1

\* The run has stopped: no step of analyze_videos is left.
Stopped == ~ENABLED Next

C8_PhaseOrder ==
    /\ [][ForwardStep]_vars
    /\ []((pc \in {"Aggregating", "Reporting"}) => Len(iterations) = m)
    /\ [](Stopped => (Returned /\ result[1].status \in {"success", "error"}))

(***************************************************************************)
(* C9: within one run each sampled video is submitted to the remote        *)
(* service at most once, also after a fault, so the number of submissions  *)
(* never exceeds the number of sampled videos.                             *)
(***************************************************************************)
\* The video names submitted so far, in call order.
Submitted == [c \in 1..Len(calls.analyze_video) |-> calls.analyze_video[c][2]]

C9_AtMostOneSubmission ==
    /\ Len(Submitted) <= m
    /\ \A a, b \in 1..Len(Submitted) : Submitted[a] = Submitted[b] => a = b
    /\ \A a \in 1..Len(Submitted) :
          \E i \in 1..m : Basename(selected_videos[i]) = Submitted[a]

C9_Witness ==
    /\ Returned
    /\ m = 3
    /\ Len(Submitted) = 3
    /\ iterations[1].fault = Some("RequestException")
    /\ iterations[2].fault = Some("ValueError")
    /\ IterationOk(iterations[3])

(***************************************************************************)
(* C10: for a non-empty candidate list and a sample count n that is at     *)
(* least the number of candidates, select_random_videos returns exactly    *)
(* the candidate list: same elements, same order, nothing added, dropped   *)
(* or repeated.                                                            *)
(***************************************************************************)
\* The sample count the sampler works with.
EffectiveCount == IF num_videos = None THEN NUM_RANDOM_VIDEOS ELSE num_videos[1]

\* select_random_videos has been called and the run has moved on.
Sampled == calls.select_random_videos # <<>>

C10_FullSetUnchanged ==
    (Sampled /\ video_files # <<>> /\ EffectiveCount >= Len(video_files)) =>
        /\ pc # "Raised"
        /\ selected_videos = video_files
        /\ \A a, b \in 1..m : selected_videos[a] = selected_videos[b] => a = b

C10_Witness ==
    /\ Sampled
    /\ num_videos = Some(3)
    /\ Len(video_files) = 3
    /\ selected_videos = video_files
    /\ pc = "Analyzing"

(***************************************************************************)
(* C11: for a list of distinct candidates and a sample count n with        *)
(* 1 <= n < |candidates|, select_random_videos returns exactly n pairwise  *)
(* distinct elements, each a member of the candidate list.                 *)
(***************************************************************************)
C11_SampleOfDistinct ==
    (Sampled /\ 1 <= EffectiveCount /\ EffectiveCount < Len(video_files)) =>
        /\ pc # "Raised"
        /\ m = EffectiveCount
        /\ \A a, b \in 1..m : selected_videos[a] = selected_videos[b] => a = b
        /\ \A a \in 1..m : \E j \in 1..Len(video_files) :
              selected_videos[a] = video_files[j]

C11_Witness ==
    /\ Sampled
    /\ num_videos = Some(2)
    /\ Len(video_files) = 3
    /\ selected_videos = <<video_files[3], video_files[1]>>

(***************************************************************************)
(* C12: without a sample count the sampler behaves exactly as with the     *)
(* configured default NUM_RANDOM_VIDEOS, and for every n >= 1 the returned *)
(* subset has min(n, |candidates|) elements.                               *)
(***************************************************************************)
Min(a, b) == IF a <= b THEN a ELSE b

C12_DefaultAndSize ==
    Sampled =>
        /\ num_videos = None =>
              select_random_videos(video_files, None)
                  = select_random_videos(video_files, Some(NUM_RANDOM_VIDEOS))
        /\ EffectiveCount >= 1 =>
              /\ pc # "Raised"
              /\ m = Min(EffectiveCount, Len(video_files))

C12_Witness ==
    /\ Sampled
    /\ num_videos = None
    /\ Len(video_files) = 3
    /\ m = 2
    /\ pc = "Analyzing"

(***************************************************************************)
(* The aggregation on its own: runs that start where the loop has just     *)
(* been left with every sampled video analysed, for every list of up to    *)
(* MaxMeanLen scores of MeanScores.                                        *)
(***************************************************************************)
MaxMeanLen == 3

MeanScores == 5..9

\* The videos of the interview folder in these runs, in listing order.
MeanEntries ==
    <<Entry("a.mp4", ".mp4", TRUE), Entry("b.MOV", ".MOV", TRUE),
      Entry("c.avi", ".avi", TRUE), Entry("e.wmv", ".wmv", TRUE)>>

ScoreLists == UNION { [1..n -> MeanScores] : n \in 1..MaxMeanLen }

\* The state in which the loop was left after the service answered the i-th
\* of the Len(scores) videos of the folder with scores[i].
AfterLoop(id, scores) ==
    LET n == Len(scores)
        dir == [exists |-> TRUE, listable |-> TRUE, entries |-> SubSeq(MeanEntries, 1, n)]
        files == Matching(id, dir.entries)
        encoded(i) == video_to_base64(files[i], "ok").value[1]
        response(i) == [transport |-> "ok", data |-> Some(Data(Some(scores[i])))]
        analysis(i) == analyze_video(encoded(i), Basename(files[i]), response(i)).value[1]
    IN  [interview_id |-> id,
         num_videos |-> Some(n),
         folder |-> dir,
         video_files |-> files,
         selected_videos |-> files,
         idx |-> n + 1,
         analysis_results |-> [i \in 1..n |-> Summary(Basename(files[i]), analysis(i))],
         detailed_analyses |-> [i \in 1..n |-> analysis(i)],
         calls |-> [get_video_files |-> <<<<id>>>>,
                    iterdir |-> <<video_folder(id)>>,
                    select_random_videos |-> <<<<files, Some(n)>>>>,
                    video_to_base64 |-> [i \in 1..n |-> <<files[i]>>],
                    analyze_video |-> [i \in 1..n |-> <<encoded(i), Basename(files[i])>>],
                    requests_post |-> [i \in 1..n |-> requests_post(encoded(i))],
                    generate_report |-> <<>>],
         iterations |-> [i \in 1..n |->
                            [video |-> files[i], response |-> Some(response(i)),
                             fault |-> None, analysis |-> Some(analysis(i))]]]

InitMean ==
    \E scores \in ScoreLists :
        LET st == AfterLoop("INT1", scores)
        IN  /\ interview_id = st.interview_id
            /\ num_videos = st.num_videos
            /\ folder = st.folder
            /\ pc = "Aggregating"
            /\ video_files = st.video_files
            /\ selected_videos = st.selected_videos
            /\ idx = st.idx
            /\ analysis_results = st.analysis_results
            /\ detailed_analyses = st.detailed_analyses
            /\ avg_score = None
            /\ result = None
            /\ exception = None
            /\ report = None
            /\ calls = st.calls
            /\ iterations = st.iterations
            /\ requests = NoRequests
            /\ clock = 1
            /\ artifacts = <<>>

NextMean ==
    \/ Aggregate
    \/ Report

SpecMean == InitMean /\ [][NextMean]_vars

(***************************************************************************)
(* C13: for every non-empty list of successful analyses,                   *)
(* average_genuinity_score is the sum of their genuinity scores divided by *)
(* their count, rounded to 4 decimal places; for the scores 8, 6, 7 it is  *)
(* 7.0000.  (The value is a function of the list: the two inequalities of  *)
(* IsRoundedMean admit one value only.)                                    *)
(***************************************************************************)
\* The scores the remote service answered with, in submission order.
AnsweredScores ==
    [i \in 1..Len(OkIterations) |->
        OkIterations[i].response[1].data[1].genuinity_score[1]]

RECURSIVE SumSeq(_)
SumSeq(seq) == IF seq = <<>> THEN 0 ELSE Head(seq) + SumSeq(Tail(seq))

C13_Mean ==
    Returned =>
        /\ IsRoundedMean(result[1].average_genuinity_score,
                         SumSeq(AnsweredScores), Len(AnsweredScores))
        /\ AnsweredScores = <<8, 6, 7>> => result[1].average_genuinity_score = 70000

C13_Witness ==
    /\ Returned
    /\ AnsweredScores = <<8, 6, 7>>
    /\ result[1].average_genuinity_score = 70000

(***************************************************************************)
(* The scenario of an interview with 10 candidate videos and a sample      *)
(* count of 1, 2 or 3: complete runs of analyze_videos on that folder.     *)
(***************************************************************************)
ScenarioNames ==
    <<"v01.mp4", "v02.mp4", "v03.mp4", "v04.mp4", "v05.mp4",
      "v06.mp4", "v07.mp4", "v08.mp4", "v09.mp4", "v10.mp4">>

ScenarioFolder ==
    [exists |-> TRUE, listable |-> TRUE,
     entries |-> [i \in 1..Len(ScenarioNames) |-> Entry(ScenarioNames[i], ".mp4", TRUE)]]

InitScenario ==
    /\ interview_id = "INT1"
    /\ num_videos \in {Some(1), Some(2), Some(3)}
    /\ folder = ScenarioFolder
    /\ pc = "Init"
    /\ video_files = <<>>
    /\ selected_videos = <<>>
    /\ idx = 0
    /\ analysis_results = <<>>
    /\ detailed_analyses = <<>>
    /\ avg_score = None
    /\ result = None
    /\ exception = None
    /\ report = None
    /\ calls = NoCalls
    /\ iterations = <<>>
    /\ requests = NoRequests
    /\ clock = 1
    /\ artifacts = <<>>

SpecScenario == InitScenario /\ [][Next]_vars

(***************************************************************************)
(* C14: when there are more candidates than the sample count n and every   *)
(* sampled video is analysed successfully, the result has status           *)
(* "success", videos_analyzed = n, individual_scores holds the n sampled   *)
(* videos in sampled order and the mean is taken over all n scores; with   *)
(* 10 candidates, n = 3 and the scores 9, 5, 7: videos_analyzed = 3 and    *)
(* the mean is 7.0.                                                        *)
(***************************************************************************)
\* The scores of the analysed videos, in iteration order.
AnalysedScores ==
    [i \in 1..Len(OkIterations) |-> OkIterations[i].analysis[1].genuinity_score]

C14_AllSampledSucceed ==
    (/\ Returned
     /\ 1 <= EffectiveCount
     /\ EffectiveCount < Len(video_files)
     /\ k = 0) =>
        /\ result[1].status = "success"
        /\ result[1].videos_analyzed = EffectiveCount
        /\ Len(result[1].individual_scores) = EffectiveCount
        /\ \A i \in 1..EffectiveCount :
              /\ result[1].individual_scores[i].video_name = Basename(selected_videos[i])
              /\ result[1].individual_scores[i].genuinity_score = AnalysedScores[i]
        /\ IsRoundedMean(result[1].average_genuinity_score,
                         SumSeq(AnalysedScores), EffectiveCount)
        /\ AnalysedScores = <<9, 5, 7>> =>
              /\ result[1].videos_analyzed = 3
              /\ result[1].average_genuinity_score = 70000

C14_Witness ==
    /\ Returned
    /\ Len(video_files) = 10
    /\ num_videos = Some(3)
    /\ selected_videos = <<video_files[7], video_files[2], video_files[10]>>
    /\ AnalysedScores = <<9, 5, 7>>
    /\ result[1].status = "success"
    /\ result[1].videos_analyzed = 3
    /\ result[1].average_genuinity_score = 70000

(***************************************************************************)
(* C15: every call of the analysis client posts with a timeout, and a call *)
(* that times out is a failure of that one item only: the item is skipped, *)
(* the loop goes on to the remaining sampled items, and no exception       *)
(* leaves analyze_videos because of it.                                    *)
(***************************************************************************)
TimedOut(it) == it.response # None /\ it.response[1].transport = "Timeout"

NamesOf(results) == {results[i].video_name : i \in 1..Len(results)}

C15_TimeoutIsItemFailure ==
    /\ Len(calls.requests_post) = Len(calls.analyze_video)
    /\ \A c \in 1..Len(calls.requests_post) :
          /\ calls.requests_post[c].timeout # None
          /\ calls.requests_post[c].timeout[1] = EXTERNAL_API_TIMEOUT
    /\ \A i \in 1..Len(iterations) :
          TimedOut(iterations[i]) =>
             /\ iterations[i].fault # None
             /\ Basename(iterations[i].video) \notin NamesOf(analysis_results)
             /\ exception = None
             /\ pc # "Raised"
             /\ pc = "Analyzing" => idx > i
             /\ pc # "Analyzing" => Len(iterations) = m

C15_Witness ==
    /\ Returned
    /\ m = 3
    /\ TimedOut(iterations[1])
    /\ IterationOk(iterations[2])
    /\ IterationOk(iterations[3])
    /\ Len(calls.requests_post) = 3
    /\ result[1].status = "success"
    /\ result[1].videos_analyzed = 2

(***************************************************************************)
(* C16: a response whose "data" is missing or empty makes analyze_video    *)
(* raise ValueError; the loop treats it as a failure of that item, so the  *)
(* video is neither in individual_scores nor counted in the mean.          *)
(***************************************************************************)
NoData(it) ==
    /\ it.response # None
    /\ it.response[1].transport = "ok"
    /\ it.response[1].data = None

\* The iterations that were answered with a "data" object.
WithData == SelectSeq(iterations, LAMBDA it : it.response # None /\ it.response[1].data # None)

C16_MissingDataIsItemFailure ==
    /\ \A i \in 1..Len(iterations) :
          NoData(iterations[i]) =>
             /\ iterations[i].fault = Some("ValueError")
             /\ iterations[i].analysis = None
             /\ Basename(iterations[i].video) \notin NamesOf(analysis_results)
             /\ Basename(iterations[i].video) \notin NamesOf(detailed_analyses)
             /\ pc # "Raised"
    /\ (Returned /\ result[1].status = "success") =>
          /\ \A i \in 1..Len(iterations) :
                NoData(iterations[i]) =>
                   Basename(iterations[i].video) \notin NamesOf(result[1].individual_scores)
          /\ result[1].videos_analyzed = Len(WithData)
          /\ IsRoundedMean(result[1].average_genuinity_score,
                           SumOfAnalyses(WithData), Len(WithData))

C16_Witness ==
    /\ Returned
    /\ m = 3
    /\ IterationOk(iterations[1])
    /\ NoData(iterations[2])
    /\ IterationOk(iterations[3])
    /\ iterations[2].fault = Some("ValueError")
    /\ result[1].status = "success"
    /\ result[1].videos_analyzed = 2
    /\ NamesOf(result[1].individual_scores) =
          {Basename(selected_videos[1]), Basename(selected_videos[3])}

(***************************************************************************)
(* The locator on its own: get_video_files applied to folders whose        *)
(* entries cover every allow-listed extension, upper and mixed case, other *)
(* extensions, no extension, and directories.                              *)
(***************************************************************************)
LocateEntries ==
    Entries \cup
    { Entry("e.flv", ".flv", TRUE),
      Entry("f.WMV", ".WMV", TRUE),
      Entry("g.Mkv", ".Mkv", TRUE),
      Entry("h.mp3", ".mp3", TRUE),
      Entry("README", "", TRUE),
      Entry("clips.mp4", ".mp4", FALSE) }

LocateFolders ==
    {[exists |-> FALSE, listable |-> FALSE, entries |-> <<>>]} \cup
    {[exists |-> TRUE, listable |-> TRUE, entries |-> l] :
        l \in UNION { Arrangements(LocateEntries, n) : n \in 0..MaxFiles }} \cup
    {[exists |-> TRUE, listable |-> FALSE, entries |-> l] :
        l \in Arrangements(LocateEntries, 1)}

InitLocate ==
    /\ interview_id = "INT1"
    /\ num_videos = None
    /\ folder \in LocateFolders
    /\ pc = "Init"
    /\ video_files = <<>>
    /\ selected_videos = <<>>
    /\ idx = 0
    /\ analysis_results = <<>>
    /\ detailed_analyses = <<>>
    /\ avg_score = None
    /\ result = None
    /\ exception = None
    /\ report = None
    /\ calls = NoCalls
    /\ iterations = <<>>
    /\ requests = NoRequests
    /\ clock = 1
    /\ artifacts = <<>>

NextLocate == Call \/ Locate

SpecLocate == InitLocate /\ [][NextLocate]_vars

(***************************************************************************)
(* C17: get_video_files returns exactly the entries of the interview's     *)
(* folder that are files whose extension, in any letter case, is one of    *)
(* mp4, avi, mov, mkv, flv, wmv; for a folder that does not exist it       *)
(* returns the empty list and raises nothing.                              *)
(***************************************************************************)
\* get_video_files has been called and has ended.
Located == calls.get_video_files # <<>>

\* The entries, by name, that are files with an allow-listed extension.
VideoNames == {"a.mp4", "b.MOV", "c.avi", "e.flv", "f.WMV", "g.Mkv"}

VideoEntries ==
    {e \in LocateEntries : e.is_file /\ e.name \in VideoNames}

C17_ExactlyTheVideoFiles ==
    Located =>
        /\ (folder.exists /\ folder.listable) =>
              /\ exception = None
              /\ {video_files[i] : i \in 1..Len(video_files)} =
                    {PathOf(interview_id, folder.entries[i]) :
                        i \in {j \in 1..Len(folder.entries) :
                                  folder.entries[j] \in VideoEntries}}
              /\ \A i, j \in 1..Len(video_files) :
                    video_files[i] = video_files[j] => i = j
        /\ ~folder.exists =>
              /\ video_files = <<>>
              /\ exception = None
              /\ pc # "Raised"

C17_Witness ==
    /\ Located
    /\ folder.exists
    /\ Len(folder.entries) = 3
    /\ folder.entries[1].name = "f.WMV"
    /\ folder.entries[2].name = "clips.mp4"
    /\ folder.entries[3].name = "e.flv"
    /\ video_files = <<PathOf(interview_id, folder.entries[1]),
                       PathOf(interview_id, folder.entries[3])>>

(***************************************************************************)
(* The controller: what the HTTP caller gets for an outcome of             *)
(* analyze_videos.                                                         *)
(***************************************************************************)
HTTPException(status_code, detail) ==
    [kind |-> "HTTPException", status_code |-> status_code, detail |-> detail]

\* The fields of AnalyzeResponse (video_schema.py lines 25-32).
AnalyzeResponseFields ==
    {"interview_id", "videos_analyzed", "average_genuinity_score",
     "individual_scores", "status", "message", "pdf_report_path"}

\* AnalyzeResponse(**result), answered with HTTP 200.
AnalyzeResponse(dict) ==
    [kind |-> "AnalyzeResponse", status_code |-> 200,
     detail |-> [f \in AnalyzeResponseFields |-> dict[f]]]

\* Lines 17-29, the body of the try: what it returns, or what it raises (an
\* HTTPException of its own, or some other exception).
controller_try(outcome) ==
    IF outcome.raised
    THEN [ends |-> "Exception", with |-> outcome.exc]
    ELSE IF outcome.value[1].status = "error"
    THEN [ends |-> "HTTPException",
          with |-> HTTPException(404, outcome.value[1].message)]
    ELSE IF AnalyzeResponseFields \subseteq DOMAIN outcome.value[1]
    THEN [ends |-> "return", with |-> AnalyzeResponse(outcome.value[1])]
    ELSE [ends |-> "Exception", with |-> "ValidationError"]

\* Mutant: without "except HTTPException: raise" the 404 is caught by the
\* general handler too.
analyze_interview_Rewrap(outcome) ==
    LET t == controller_try(outcome)
    IN  CASE t.ends = "HTTPException" ->
               HTTPException(500, <<"Internal server error: ", t.with.detail>>)
          [] t.ends = "Exception" ->
               HTTPException(500, <<"Internal server error: ", t.with>>)
          [] OTHER -> t.with

\* VideoController.analyze_interview: an HTTPException of the body is raised
\* again as it is (lines 31-32), any other exception becomes HTTP 500 (lines
\* 33-35), a returned AnalyzeResponse is the response.
analyze_interview(outcome) ==
    LET t == controller_try(outcome)
    IN  CASE t.ends = "HTTPException" -> t.with
          [] t.ends = "Exception" ->
               HTTPException(500, <<"Internal server error: ", t.with>>)
          [] OTHER -> t.with

\* The outcome of the call of analyze_videos, once it has ended.
ServiceOutcome ==
    IF pc = "Raised" THEN Raise(exception[1]) ELSE Return(result[1])

(***************************************************************************)
(* C18: when listing the interview folder fails with a storage-access      *)
(* fault (permission denied), the caller gets an outcome different from    *)
(* the "no videos found" outcome: the empty-candidates result is never     *)
(* produced.                                                               *)
(***************************************************************************)
ListingDenied == Located /\ folder.exists /\ ~folder.listable

C18_AccessFaultIsNotNoVideos ==
    ListingDenied =>
        /\ Terminated
        /\ exception = Some("PermissionError")
        /\ result # Some(NoVideosResult(interview_id))
        /\ video_files = <<>>
        /\ ServiceOutcome # Return(NoVideosResult(interview_id))
        /\ analyze_interview(ServiceOutcome) #
              analyze_interview(Return(NoVideosResult(interview_id)))
        /\ analyze_interview(ServiceOutcome).status_code #
              analyze_interview(Return(NoVideosResult(interview_id))).status_code

C18_Witness ==
    /\ ListingDenied
    /\ interview_id = "INT1"
    /\ Len(folder.entries) = 1
    /\ folder.entries[1].name = "a.mp4"
    /\ pc = "Raised"
    /\ analyze_interview(ServiceOutcome).status_code = 500

(***************************************************************************)
(* C19: for every interview id, every sample count (0 and negative ones    *)
(* included) and every fault of the locator, the sampler, the encoder, the *)
(* analysis client or the report generator, analyze_videos ends by         *)
(* returning a result that carries "status" and "message"; no exception    *)
(* leaves it.                                                              *)
(***************************************************************************)
C19_AlwaysStructuredResult ==
    Terminated =>
        /\ Returned
        /\ exception = None
        /\ result # None
        /\ {"status", "message"} \subseteq DOMAIN result[1]
        /\ result[1].status \in {"success", "error"}

(***************************************************************************)
(* C20: an interview id with a path-traversal segment ("..", or an         *)
(* absolute path) is rejected or normalized before it is joined to the     *)
(* storage root: in no run does the locator list a directory, or the       *)
(* encoder read a file, outside VIDEO_BASE_PATH.                           *)
(***************************************************************************)
\* The segments of a path with every ".." resolved against its parent.
RECURSIVE Resolve(_, _)
Resolve(done, parts) ==
    IF parts = <<>> THEN done
    ELSE IF Head(parts) = ".."
    THEN Resolve(IF done = <<>> THEN <<>> ELSE SubSeq(done, 1, Len(done) - 1),
                 Tail(parts))
    ELSE Resolve(Append(done, Head(parts)), Tail(parts))

\* The path lies in the directory base or below it.
IsUnder(path, base) ==
    LET p == Resolve(<<>>, path)
    IN  /\ Len(p) >= Len(base)
        /\ SubSeq(p, 1, Len(base)) = base

\* The file the encoder opens for a sampled video path.
FileOf(video_path) == video_folder(video_path[1]) \o <<video_path[2]>>

C20_NothingOutsideBasePath ==
    /\ \A c \in 1..Len(calls.iterdir) :
          IsUnder(calls.iterdir[c], VIDEO_BASE_PATH)
    /\ \A c \in 1..Len(calls.video_to_base64) :
          IsUnder(FileOf(calls.video_to_base64[c][1]), VIDEO_BASE_PATH)

(***************************************************************************)
(* Two requests served side by side.  Every request gets a VideoController *)
(* and a VideoService of its own (get_video_controller) and runs           *)
(* analyze_videos on its own locals; the requests share the storage, the   *)
(* wall clock and the directory the reports are written to.                *)
(***************************************************************************)
RequestIds == {"r1", "r2"}

OtherRequest(r) == CHOOSE o \in RequestIds : o # r

\* The storage the requests read: the folder of each interview.
Storage(id) ==
    IF id = "INT1"
    THEN [exists |-> TRUE, listable |-> TRUE,
          entries |-> <<Entry("a.mp4", ".mp4", TRUE), Entry("b.MOV", ".MOV", TRUE)>>]
    ELSE [exists |-> TRUE, listable |-> TRUE,
          entries |-> <<Entry("c.avi", ".avi", TRUE)>>]

\* The values datetime.now().strftime("%Y%m%d_%H%M%S") takes, second by second.
ClockValues == <<"20260101_120000", "20260101_120001">>

\* What the remote service answers to these requests.
RequestResponses ==
    { [transport |-> "Timeout", data |-> None],
      [transport |-> "ok", data |-> None],
      [transport |-> "ok", data |-> Some(Data(Some(5)))],
      [transport |-> "ok", data |-> Some(Data(Some(9)))] }

\* The locals of a call analyze_videos(id, num) that has not started.
NewRequest(id, num) ==
    [interview_id |-> id, num_videos |-> num, pc |-> "Init",
     video_files |-> <<>>, selected_videos |-> <<>>, idx |-> 0,
     analysis_results |-> <<>>, detailed_analyses |-> <<>>,
     avg_score |-> None, result |-> None, exception |-> None,
     iterations |-> <<>>]

\* Mutant: the list is a shared one that still holds what another request put
\* into it.
NewList_Shared(other) == other

\* Lines 81-82: "analysis_results = []", a new list whatever another request
\* holds in its own.
NewList(other) == <<>>

InitRequests ==
    /\ requests \in [RequestIds -> {NewRequest(id, num) :
                                      id \in PlainIds, num \in {None, Some(1)}}]
    /\ clock = 1
    /\ artifacts = <<>>
    /\ interview_id = "INT1"
    /\ num_videos = None
    /\ folder = Storage("INT1")
    /\ pc = "Init"
    /\ video_files = <<>>
    /\ selected_videos = <<>>
    /\ idx = 0
    /\ analysis_results = <<>>
    /\ detailed_analyses = <<>>
    /\ avg_score = None
    /\ result = None
    /\ exception = None
    /\ report = None
    /\ calls = NoCalls
    /\ iterations = <<>>

\* The variables of the single call, which these requests do not touch.
single == <<interview_id, num_videos, folder, pc, video_files, selected_videos, idx,
            analysis_results, detailed_analyses, avg_score, result, exception,
            report, calls, iterations>>

\* Line 66: request r enters analyze_videos.
RequestCall(r) ==
    /\ requests[r].pc = "Init"
    /\ requests' = [requests EXCEPT ![r].pc = "Locating"]
    /\ UNCHANGED <<clock, artifacts, single>>

\* Lines 69-75 for request r.
RequestLocate(r) ==
    /\ requests[r].pc = "Locating"
    /\ LET q == requests[r]
           located == get_video_files(q.interview_id, Storage(q.interview_id))
       IN  requests' =
              [requests EXCEPT ![r] =
                  IF located.raised
                  THEN [q EXCEPT !.exception = Some(located.exc), !.pc = "Raised"]
                  ELSE IF NoCandidates(located.value[1])
                  THEN [q EXCEPT !.video_files = located.value[1],
                                 !.result = Some(NoVideosResult(q.interview_id)),
                                 !.pc = "Done"]
                  ELSE [q EXCEPT !.video_files = located.value[1],
                                 !.pc = "Sampling"]]
    /\ UNCHANGED <<clock, artifacts, single>>

\* Lines 78-82 for request r: sample, then create the two lists.
RequestSample(r) ==
    /\ requests[r].pc = "Sampling"
    /\ LET q == requests[r]
           o == requests[OtherRequest(r)]
       IN  \E s \in select_random_videos(q.video_files, q.num_videos) :
              requests' =
                 [requests EXCEPT ![r] =
                     IF s.raised
                     THEN [q EXCEPT !.exception = Some(s.exc), !.pc = "Raised"]
                     ELSE [q EXCEPT !.selected_videos = s.value[1],
                                    !.analysis_results = NewList(o.analysis_results),
                                    !.detailed_analyses = NewList(o.detailed_analyses),
                                    !.idx = 1,
                                    !.pc = "Analyzing"]]
    /\ UNCHANGED <<clock, artifacts, single>>

\* Lines 84-107 for the locals q of a request: one iteration of the loop.
IterationOf(q, read, response) ==
    LET video_path == q.selected_videos[q.idx]
        video_name == Basename(video_path)
        encoded == video_to_base64(video_path, read)
        analysed == analyze_video(encoded.value[1], video_name, response)
    IN  IF encoded.raised
        THEN [q EXCEPT !.analysis_results = AfterItemFault(@),
                       !.detailed_analyses = AfterItemFault(@),
                       !.iterations = Append(@, [video |-> video_path,
                                                 response |-> None,
                                                 fault |-> Some(encoded.exc),
                                                 analysis |-> None]),
                       !.idx = NextItem(@)]
        ELSE IF analysed.raised
        THEN [q EXCEPT !.analysis_results = AfterItemFault(@),
                       !.detailed_analyses = AfterItemFault(@),
                       !.iterations = Append(@, [video |-> video_path,
                                                 response |-> Some(response),
                                                 fault |-> Some(analysed.exc),
                                                 analysis |-> None]),
                       !.idx = NextItem(@)]
        ELSE [q EXCEPT !.analysis_results =
                            ListAppend(@, Summary(video_name, analysed.value[1])),
                       !.detailed_analyses = ListAppend(@, analysed.value[1]),
                       !.iterations = Append(@, [video |-> video_path,
                                                 response |-> Some(response),
                                                 fault |-> None,
                                                 analysis |-> analysed.value]),
                       !.idx = NextItem(@)]

RequestAnalyzeItem(r) ==
    /\ requests[r].pc = "Analyzing"
    /\ requests[r].idx <= Len(requests[r].selected_videos)
    /\ \E read \in ReadOutcomes, response \in RequestResponses :
          requests' = [requests EXCEPT ![r] = IterationOf(requests[r], read, response)]
    /\ UNCHANGED <<clock, artifacts, single>>

\* Lines 109-113 for request r.
RequestLoopExit(r) ==
    /\ requests[r].pc = "Analyzing"
    /\ requests[r].idx > Len(requests[r].selected_videos)
    /\ requests' =
          [requests EXCEPT ![r] =
              IF NothingAnalyzed(@.analysis_results)
              THEN [@ EXCEPT !.result = Some(AllFailedResult), !.pc = "Done"]
              ELSE [@ EXCEPT !.pc = "Aggregating"]]
    /\ UNCHANGED <<clock, artifacts, single>>

\* Line 116 for request r.
RequestAggregate(r) ==
    /\ requests[r].pc = "Aggregating"
    /\ requests' = [requests EXCEPT ![r].avg_score = Some(Average(requests[r].analysis_results)),
                                    ![r].pc = "Reporting"]
    /\ UNCHANGED <<clock, artifacts, single>>

\* Lines 119-139 for request r: generate_report names the file after the
\* interview and the current second (pdf_service.py lines 53-55) and writes it
\* (line 253).
RequestReport(r) ==
    /\ requests[r].pc = "Reporting"
    /\ \E outcome \in ReportOutcomes :
          LET q == requests[r]
              generated == generate_report(q.interview_id, outcome, ClockValues[clock])
          IN  /\ artifacts' =
                    IF generated.raised
                    THEN artifacts
                    ELSE Append(artifacts, [path |-> generated.value[1], by |-> r,
                                            content |-> q.analysis_results])
              /\ requests' =
                    [requests EXCEPT ![r] =
                        [q EXCEPT !.result = Some(FinalResult(q.interview_id,
                                                              q.analysis_results,
                                                              q.avg_score[1], generated)),
                                  !.pc = "Done"]]
    /\ UNCHANGED <<clock, single>>

\* A second passes.
Tick ==
    /\ clock < Len(ClockValues)
    /\ clock' = clock + 1
    /\ UNCHANGED <<requests, artifacts, single>>

NextRequests ==
    \/ \E r \in RequestIds : RequestCall(r)
    \/ \E r \in RequestIds : RequestLocate(r)
    \/ \E r \in RequestIds : RequestSample(r)
    \/ \E r \in RequestIds : RequestAnalyzeItem(r)
    \/ \E r \in RequestIds : RequestLoopExit(r)
    \/ \E r \in RequestIds : RequestAggregate(r)
    \/ \E r \in RequestIds : RequestReport(r)
    \/ Tick

SpecRequests == InitRequests /\ [][NextRequests]_vars

(***************************************************************************)
(* C21: a report artifact is written once and never again: for any two     *)
(* runs, one after the other or side by side, for the same interview or    *)
(* for different ones, the path written by one successful report           *)
(* generation is not written by the other.                                 *)
(***************************************************************************)
C21_ArtifactWrittenOnce ==
    \A i, j \in 1..Len(artifacts) :
        artifacts[i].path = artifacts[j].path => i = j

(***************************************************************************)
(* C22: no state crosses request boundaries: when two requests are served  *)
(* interleaved, the status, videos_analyzed, mean and individual_scores of *)
(* each are what the request gives alone with the same sample and the same *)
(* per-video outcomes, and no summary of a video of one request appears in *)
(* the result of the other.                                                *)
(***************************************************************************)
\* The summaries a call collects alone from the loop iterations its.
RECURSIVE Replay(_, _)
Replay(its, collected) ==
    IF its = <<>> THEN collected
    ELSE IF IterationOk(Head(its))
    THEN Replay(Tail(its),
                ListAppend(collected,
                           Summary(Basename(Head(its).video), Head(its).analysis[1])))
    ELSE Replay(Tail(its), AfterItemFault(collected))

\* The result of the call with locals q when it is the only one served.
AloneResult(q) ==
    LET collected == Replay(q.iterations, <<>>)
    IN  IF NoCandidates(q.video_files) THEN NoVideosResult(q.interview_id)
        ELSE IF NothingAnalyzed(collected) THEN AllFailedResult
        ELSE SuccessResult(q.interview_id, collected, Average(collected), None)

NamesIn(dir) == {dir.entries[i].name : i \in 1..Len(dir.entries)}

C22_NoStateCrossesRequests ==
    \A r \in RequestIds :
        LET q == requests[r]
            o == requests[OtherRequest(r)]
        IN  /\ \A i \in 1..Len(q.analysis_results) :
                  q.analysis_results[i].video_name \in NamesIn(Storage(q.interview_id))
            /\ Len(q.analysis_results) <= Len(q.selected_videos)
            /\ q.pc = "Done" =>
                  /\ q.result[1].status = AloneResult(q).status
                  /\ q.result[1].message = AloneResult(q).message
                  /\ q.result[1].status = "success" =>
                        /\ q.result[1].interview_id = q.interview_id
                        /\ q.result[1].videos_analyzed = AloneResult(q).videos_analyzed
                        /\ q.result[1].average_genuinity_score =
                              AloneResult(q).average_genuinity_score
                        /\ q.result[1].individual_scores = AloneResult(q).individual_scores
                        /\ o.interview_id # q.interview_id =>
                              NamesOf(q.result[1].individual_scores) \cap
                                 NamesIn(Storage(o.interview_id)) = {}

C22_Witness ==
    /\ requests["r1"].interview_id = "INT1"
    /\ requests["r1"].pc = "Analyzing"
    /\ requests["r1"].idx = 2
    /\ Len(requests["r1"].analysis_results) = 1
    /\ requests["r2"].interview_id = "INT2"
    /\ requests["r2"].pc = "Done"
    /\ Len(requests["r2"].iterations) = 1
    /\ requests["r2"].result[1].status = "success"
    /\ NamesOf(requests["r2"].result[1].individual_scores) = {"c.avi"}

(***************************************************************************)
(* C23: on every path, the "no videos" and "all failed" paths included,    *)
(* the value analyze_videos returns is a complete aggregate result: it     *)
(* carries the interview id, the number of videos analysed, the mean, the  *)
(* per-video summaries, a status, a message and the report reference       *)
(* (which may be None).                                                    *)
(***************************************************************************)
AggregateResultFields ==
    {"interview_id", "videos_analyzed", "average_genuinity_score",
     "individual_scores", "status", "message", "pdf_report_path"}

C23_CompleteAggregateResult ==
    Returned => AggregateResultFields \subseteq DOMAIN result[1]

\* The same statement for the runs that end with status "success".
C23_SuccessRuns ==
    (Returned /\ result[1].status = "success") =>
        DOMAIN result[1] = AggregateResultFields

(***************************************************************************)
(* The run of analyze_videos on two videos when the remote service answers *)
(* with every shape of the "data" object: each number present or missing,  *)
(* errors_summary and detailed_errors present or missing, agreeing or not. *)
(***************************************************************************)
DetailedErrorDict(category) ==
    [error_type |-> category, from_time |-> 1, to_time |-> 2, confidence |-> 1]

\* A non-empty data object: besides the five keys it may hold others
\* (analysis_timestamp), so it is not empty when all five are missing.
PayloadData ==
    [genuinity_score : {None, Some(7)},
     total_duration : {None, Some(60)},
     total_penalty : {None, Some(1)},
     errors_summary : {None, Some({}), Some({"gaze"})},
     detailed_errors : {None, Some(<<>>),
                        Some(<<DetailedErrorDict("gaze")>>),
                        Some(<<DetailedErrorDict("voice")>>),
                        Some(<<[error_type |-> "gaze"]>>)}]

PayloadResponses ==
    {[transport |-> "ok", data |-> None]} \cup
    {[transport |-> "ok", data |-> Some(d)] : d \in PayloadData}

InitPayload ==
    /\ interview_id = "INT1"
    /\ num_videos = None
    /\ folder = Storage("INT1")
    /\ pc = "Init"
    /\ video_files = <<>>
    /\ selected_videos = <<>>
    /\ idx = 0
    /\ analysis_results = <<>>
    /\ detailed_analyses = <<>>
    /\ avg_score = None
    /\ result = None
    /\ exception = None
    /\ report = None
    /\ calls = NoCalls
    /\ iterations = <<>>
    /\ requests = NoRequests
    /\ clock = 1
    /\ artifacts = <<>>

\* The loop iteration with the answers of PayloadResponses.
AnalyzePayload == AnalyzeItemWith(PayloadResponses)

NextPayload ==
    \/ Call
    \/ Locate
    \/ Sample
    \/ AnalyzePayload
    \/ LoopExit
    \/ Aggregate
    \/ Report

SpecPayload == InitPayload /\ [][NextPayload]_vars

(***************************************************************************)
(* C24: every analysis the adapter returns as a success satisfies the      *)
(* invariant of the data model: each key of errors_summary is the category *)
(* of at least one record of detailed_errors; a response that violates     *)
(* this is not accepted as a successful analysis.                          *)
(***************************************************************************)
Categories(errors) == {errors[i].error_type : i \in 1..Len(errors)}

C24_SummaryKeysAreCategories ==
    \A i \in 1..Len(iterations) :
        IterationOk(iterations[i]) =>
            iterations[i].analysis[1].errors_summary \subseteq
               Categories(iterations[i].analysis[1].detailed_errors)

(***************************************************************************)
(* The run under the assumption that every call made by analyze_videos     *)
(* eventually returns or raises: a step that can be taken is taken.        *)
(***************************************************************************)
SpecLive == Spec /\ WF_vars(Next)

(***************************************************************************)
(* C25: if every call of the locator, the encoder, the analysis client and *)
(* the report generator eventually returns or raises, every run of         *)
(* analyze_videos eventually reaches Done and returns a result, after at   *)
(* most one loop iteration per sampled video, whatever per-item successes  *)
(* and faults occur.                                                       *)
(***************************************************************************)
C25_EventuallyDone ==
    /\ <>(Returned /\ result # None)
    /\ [](Len(iterations) <= Len(selected_videos))

\* Every run ends, by a return or by an exception, within the bound on the loop.
C25_EventuallyEnds ==
    /\ <>Terminated
    /\ [](Len(iterations) <= Len(selected_videos))

(***************************************************************************)
(* C26: the report generator is invoked exactly once in every run with at  *)
(* least one successful analysis and never in a run that ends with status  *)
(* "error"; it receives only successful videos, and the summary list and   *)
(* the detail list it receives have the length and the order of            *)
(* individual_scores in the returned result.                               *)
(***************************************************************************)
ReportCalls == calls.generate_report

C26_ReportInvokedOnce ==
    /\ Len(ReportCalls) <= 1
    /\ Returned =>
          /\ Len(OkIterations) >= 1 => Len(ReportCalls) = 1
          /\ result[1].status = "error" => Len(ReportCalls) = 0
    /\ \A c \in 1..Len(ReportCalls) :
          LET summaries == ReportCalls[c][3]
              details == ReportCalls[c][4]
          IN  /\ Len(OkIterations) >= 1
              /\ summaries = ExpectedSummaries
              /\ Len(details) = Len(summaries)
              /\ \A i \in 1..Len(summaries) :
                    /\ details[i] = OkIterations[i].analysis[1]
                    /\ details[i].video_name = summaries[i].video_name
              /\ Returned =>
                    /\ result[1].status = "success"
                    /\ result[1].individual_scores = summaries
                    /\ Len(details) = Len(result[1].individual_scores)

C26_Witness ==
    /\ Returned
    /\ m = 3
    /\ ~IterationOk(iterations[1])
    /\ IterationOk(iterations[2])
    /\ IterationOk(iterations[3])
    /\ Len(ReportCalls) = 1
    /\ Len(ReportCalls[1][3]) = 2
    /\ ReportCalls[1][4][1].video_name = Basename(selected_videos[2])
    /\ result[1].individual_scores = ReportCalls[1][3]

(***************************************************************************)
(* C27: after every loop iteration the summary list and the list of        *)
(* detailed analyses have the same length and their i-th entries describe  *)
(* the same video with the same genuinity score; a failed item adds an     *)
(* entry to neither list; in every successful result videos_analyzed is    *)
(* the length of individual_scores.                                        *)
(***************************************************************************)
C27_ListsInStep ==
    /\ Len(analysis_results) = Len(detailed_analyses)
    /\ Len(analysis_results) = Len(iterations) - k
    /\ \A i \in 1..Len(analysis_results) :
          /\ analysis_results[i].video_name = detailed_analyses[i].video_name
          /\ analysis_results[i].genuinity_score = detailed_analyses[i].genuinity_score
    /\ (Returned /\ result[1].status = "success") =>
          result[1].videos_analyzed = Len(result[1].individual_scores)

C27_Witness ==
    /\ pc = "Analyzing"
    /\ m = 3
    /\ idx = 3
    /\ ~IterationOk(iterations[1])
    /\ IterationOk(iterations[2])
    /\ Len(analysis_results) = 1
    /\ Len(detailed_analyses) = 1
    /\ detailed_analyses[1].video_name = Basename(selected_videos[2])
    /\ analysis_results[1].genuinity_score = 9

(***************************************************************************)
(* C28: for every sample count the request accepts (any optional integer,  *)
(* 0 included), the sampler hands the loop at least one video whenever     *)
(* there are candidates, so "Failed to analyze any videos" is returned     *)
(* only after at least one video was attempted and faulted.                *)
(***************************************************************************)
C28_AllFailedOnlyAfterAttempt ==
    /\ (pc = "Analyzing" /\ video_files # <<>>) => m >= 1
    /\ (Returned /\ result = Some(AllFailedResult)) =>
          /\ Len(iterations) >= 1
          /\ k >= 1

\* The same statement for the sample counts n >= 1 and the default.
C28_PositiveCounts ==
    (num_videos = None \/ num_videos[1] >= 1) =>
        /\ (pc = "Analyzing" /\ video_files # <<>>) => m >= 1
        /\ (Returned /\ result = Some(AllFailedResult)) =>
              /\ Len(iterations) >= 1
              /\ k = Len(iterations)

(***************************************************************************)
(* C29: a response with a non-empty "data" that lacks genuinity_score (or  *)
(* total_duration, total_penalty) is accepted as a successful analysis     *)
(* with the missing number set to 0.0: the video is counted in             *)
(* videos_analyzed and its 0.0 score enters the mean; it is not a parse    *)
(* failure.                                                                *)
(***************************************************************************)
\* The data object the iteration was answered with, if there was one whose
\* detailed errors are well formed.
HasData(it) ==
    /\ it.response # None
    /\ it.response[1].transport = "ok"
    /\ it.response[1].data # None
    /\ ValidDetailedErrors(GetOr(it.response[1].data[1].detailed_errors, <<>>))

DataOf(it) == it.response[1].data[1]

\* The number the response carries under a key, 0 when the key is missing.
NumberOrZero(field) == IF field = None THEN 0 ELSE field[1]

AnsweredWithData == SelectSeq(iterations, HasData)

RECURSIVE SumOfAnswers(_)
SumOfAnswers(its) ==
    IF its = <<>> THEN 0
    ELSE NumberOrZero(DataOf(Head(its)).genuinity_score) + SumOfAnswers(Tail(its))

C29_MissingNumbersAreZero ==
    /\ \A i \in 1..Len(iterations) :
          HasData(iterations[i]) =>
             /\ IterationOk(iterations[i])
             /\ iterations[i].analysis[1].genuinity_score =
                   NumberOrZero(DataOf(iterations[i]).genuinity_score)
             /\ iterations[i].analysis[1].total_duration =
                   NumberOrZero(DataOf(iterations[i]).total_duration)
             /\ iterations[i].analysis[1].total_penalty =
                   NumberOrZero(DataOf(iterations[i]).total_penalty)
             /\ Basename(iterations[i].video) \in NamesOf(analysis_results)
    /\ (Returned /\ Len(AnsweredWithData) >= 1) =>
          /\ result[1].status = "success"
          /\ result[1].videos_analyzed = Len(AnsweredWithData)
          /\ IsRoundedMean(result[1].average_genuinity_score,
                           SumOfAnswers(AnsweredWithData), Len(AnsweredWithData))

C29_Witness ==
    /\ Returned
    /\ Len(iterations) = 2
    /\ HasData(iterations[1])
    /\ DataOf(iterations[1]).genuinity_score = None
    /\ DataOf(iterations[1]).total_duration = None
    /\ DataOf(iterations[1]).total_penalty = None
    /\ HasData(iterations[2])
    /\ DataOf(iterations[2]).genuinity_score = Some(7)
    /\ result[1].videos_analyzed = 2
    /\ result[1].individual_scores[1].genuinity_score = 0
    /\ result[1].individual_scores[1].total_duration = 0
    /\ result[1].average_genuinity_score = 35000

(***************************************************************************)
(* C30: the controller maps a service result with status "error" (no       *)
(* videos, all failed) to HTTP 404 whose detail is the service message,    *)
(* never re-wrapped as 500; an exception raised by the service to HTTP     *)
(* 500; a "success" result to an AnalyzeResponse with the same field       *)
(* values.                                                                 *)
(***************************************************************************)
HttpResponse == analyze_interview(ServiceOutcome)

C30_ControllerMapping ==
    Terminated =>
        /\ (Returned /\ result[1].status = "error") =>
              /\ HttpResponse.kind = "HTTPException"
              /\ HttpResponse.status_code = 404
              /\ HttpResponse.detail = result[1].message
        /\ pc = "Raised" =>
              /\ HttpResponse.kind = "HTTPException"
              /\ HttpResponse.status_code = 500
        /\ (Returned /\ result[1].status = "success") =>
              /\ HttpResponse.kind = "AnalyzeResponse"
              /\ HttpResponse.status_code = 200
              /\ DOMAIN HttpResponse.detail = DOMAIN result[1]
              /\ \A f \in DOMAIN result[1] : HttpResponse.detail[f] = result[1][f]

C30_Witness ==
    /\ Returned
    /\ m = 2
    /\ k = 2
    /\ result = Some(AllFailedResult)
    /\ HttpResponse = HTTPException(404, <<"Failed to analyze any videos">>)

====
